---- MODULE Spec2Model ----
(***************************************************************************)
(* Call dispatch and orchestration engine of supabase-call-management:     *)
(* the call_queue job store, the provider registry and availability        *)
(* snapshot, the SQL functions of migrations/002_queue_and_providers.sql   *)
(* (with assign_call_to_provider as replaced by the later migration), the  *)
(* periodic actors of examples/queue_processor.js and the call-webhook     *)
(* edge function.                                                          *)
(*                                                                         *)
(* Every rpc() is one database transaction and therefore one atomic step;  *)
(* the JavaScript between two awaits is interleaved freely with the other  *)
(* actors.                                                                 *)
(*                                                                         *)
(* Time.  Timestamps are stored relative to CURRENT_TIMESTAMP, in minutes: *)
(*   last_attempt     = age of the last assignment, saturating one minute  *)
(*                      above the stall timeout;                           *)
(*   scheduled_time   = minutes still to wait, 0 = due now, -1 = strictly  *)
(*                      in the past, NoTime = NULL;                        *)
(*   next_retry_time  = minutes still to wait, 0 = reached.                *)
(* Advance(d) lets d minutes pass.  created_at is the ordinal of the       *)
(* INSERT (transactions commit with distinct timestamps).                  *)
(***************************************************************************)
EXTENDS Integers, Sequences, FiniteSets, TLC

VARIABLES
    jobs,         \* call_queue: one row per job id ("absent" = not inserted yet)
    providers,    \* call_service_providers: max_concurrent_calls, priority, is_active
    avail,        \* provider_availability: current_calls, status
    assignments,  \* call_assignments: the rows of each queue_id, in insertion order
    retries,      \* call_retries, keyed by queue_id (retry_count 0 = no row)
    history,      \* call_history: the rows of each queue_id, in insertion order
    usage,        \* user_call_usage of the owner
    disp,         \* each queue processor instance: position in processQueue/processNextCall and its locals
    sweep,        \* checkStalledCalls: position and the rows it selected
    called,       \* jobs for which a provider accepted makeCall (it may send events for them)
    resp,         \* status code of the last HTTP response of an edge function (0 = none yet)
    probe         \* updateProviderAvailability: position and the providers still to refresh in this tick

vars == <<jobs, providers, avail, assignments, retries, history, usage, disp, sweep, called, resp, probe>>

Jobs == {1, 2}
Providers == {"p1", "p2"}
Dispatchers == {"d1", "d2"}
NULL == "NULL"

\* No job: an empty get_next_call_in_queue result, a payload without queue id
NoJob == 0
\* A queue id that matches no row of call_queue
UnknownJob == 9

\* scheduled_time IS NULL
NoTime == -9

max_retries == 3
StallTimeoutMinutes == 30
FirstRetryMinutes == 5
maxToProcess == 10

\* Bounds of the model
MaxHistory == 2
CallLimit == 2
MaxActive == 1
\* The global concurrency limit a deployment asks for (maxConcurrentCalls of
\* the processCallQueue outline), scaled to a registry of two one-slot
\* providers: below the providers' total capacity
globalConcurrencyLimit == 1
\* Largest max_concurrent_calls of a provider in the enumerated registries
MaxSlots == 2

\* Minutes that may pass in one step of the clock
TimeSteps == {StallTimeoutMinutes, StallTimeoutMinutes + 1}
\* Delay a caller may ask for in scheduled_time
ScheduleDelays == {NoTime, StallTimeoutMinutes}
Priorities == {1, 5}
\* Provider the job's assistant_id and phone_number_id resolve to
Pins == {<<NULL, NULL>>, <<"p1", NULL>>, <<"p1", "p2">>}
HealthStatuses == {"online", "degraded", "offline"}
Outcomes == {"completed", "failed", "canceled", "in-progress"}
Terminal == {"completed", "failed", "canceled"}

Max(a, b) == IF a >= b THEN a ELSE b
Min(a, b) == IF a <= b THEN a ELSE b
RECURSIVE Pow2(_)
Pow2(n) == IF n <= 0 THEN 1 ELSE 2 * Pow2(n - 1)

AbsentJob ==
    [status |-> "absent", priority |-> 0, created_at |-> 0, scheduled_time |-> NoTime,
     provider_id |-> NULL, provider_call_id |-> NULL, attempt_count |-> 0,
     last_attempt |-> 0, assistant_provider |-> NULL, phone_provider |-> NULL]

NoRetry == [retry_count |-> 0, next_retry_time |-> 0, last_provider_id |-> NULL]

IdleProbe == [pc |-> "idle", todo |-> {}]

IdleDisp ==
    [pc |-> "idle", processed |-> 0, nextCall |-> NoJob, providerId |-> NULL,
     assigned |-> FALSE, snap |-> [p \in Providers |-> 0]]

-----------------------------------------------------------------------------
(* SQL functions *)

\* get_best_available_provider without the capacity predicate and the ORDER BY
get_best_available_provider_AnyOnline(pr, av) ==
    LET E == {p \in Providers : pr[p].is_active /\ av[p].status = "online"}
    IN  IF E = {} THEN {NULL} ELSE E

\* ORDER BY created_at only
QueueBefore_FifoOnly(q, a, b) == q[a].created_at <= q[b].created_at

\* assign_call_to_provider without AND status = 'pending'
AssignFound_NoStatusCheck(q) == TRUE

\* handle_failed_call without the retry ceiling
ShouldRetry_NoCeiling(q, retry) == retry

\* The ON CONFLICT branch leaving retry_count as it is
UpsertRetry_NoIncrement(r, provider_id_var) ==
    [retry_count |-> 1, next_retry_time |-> FirstRetryMinutes,
     last_provider_id |-> provider_id_var]

\* handle_failed_call with attempt_count <= max_retries
ShouldRetry_OffByOne(q, retry) == retry /\ q.attempt_count <= max_retries

\* A stall query that never matches
Stalled_Never(q) == FALSE

\* ORDER BY cq.priority ASC, cq.created_at ASC
QueueBefore(q, a, b) ==
    \/ q[a].priority < q[b].priority
    \/ q[a].priority = q[b].priority /\ q[a].created_at <= q[b].created_at

\* get_next_call_in_queue without the scheduled_time condition
Eligible_IgnoreSchedule(q) == {j \in Jobs : q[j].status = "pending"}

\* WHERE cq.status = 'pending'
\*   AND (cq.scheduled_time IS NULL OR cq.scheduled_time <= CURRENT_TIMESTAMP)
Eligible(q) ==
    {j \in Jobs : /\ q[j].status = "pending"
                  /\ (q[j].scheduled_time = NoTime \/ q[j].scheduled_time <= 0)}

get_next_call_in_queue(q) ==
    IF Eligible(q) = {} THEN NoJob
    ELSE CHOOSE j \in Eligible(q) : \A k \in Eligible(q) : QueueBefore(q, j, k)

\* ORDER BY priority ASC first, then by remaining capacity
ProviderBefore_PriorityFirst(pr, av, a, b) ==
    LET ra == pr[a].max_concurrent_calls - av[a].current_calls
        rb == pr[b].max_concurrent_calls - av[b].current_calls
    IN  \/ pr[a].priority < pr[b].priority
        \/ pr[a].priority = pr[b].priority /\ ra >= rb

\* get_best_available_provider without AND pa.status = 'online'
ProviderEligible_IgnoreHealth(pr, av, p) ==
    /\ pr[p].is_active
    /\ av[p].current_calls < pr[p].max_concurrent_calls

ProviderEligible(pr, av, p) ==
    /\ pr[p].is_active
    /\ av[p].current_calls < pr[p].max_concurrent_calls
    /\ av[p].status = "online"

\* ORDER BY (max_concurrent_calls - current_calls) DESC, priority ASC
ProviderBefore(pr, av, a, b) ==
    LET ra == pr[a].max_concurrent_calls - av[a].current_calls
        rb == pr[b].max_concurrent_calls - av[b].current_calls
    IN  \/ ra > rb
        \/ ra = rb /\ pr[a].priority <= pr[b].priority

\* The rows LIMIT 1 may return (rows equal under the ORDER BY come in any order);
\* {NULL} when no row qualifies.
get_best_available_provider(pr, av) ==
    LET E == {p \in Providers : ProviderEligible(pr, av, p)}
    IN  IF E = {} THEN {NULL}
        ELSE {p \in E : \A o \in E : ProviderBefore(pr, av, p, o)}

\* Provider overrides of assign_call_to_provider: the assistant's provider,
\* then the phone number's provider, which takes precedence.
AssignTarget(q, provider_id_param) ==
    LET a == IF q.assistant_provider # NULL THEN q.assistant_provider ELSE provider_id_param
    IN  IF q.phone_provider # NULL THEN q.phone_provider ELSE a

\* UPDATE call_queue ... WHERE id = queue_id_param AND status = 'pending'
AssignFound(q) == q.status = "pending"

assign_call_to_provider(queue_id_param, provider_id_param) ==
    LET q == jobs[queue_id_param]
        p == AssignTarget(q, provider_id_param)
        same == [success |-> FALSE, jobs |-> jobs, avail |-> avail, assignments |-> assignments]
    IN  IF q.status = "absent" THEN same
        ELSE IF AssignFound(q)
        THEN [success |-> TRUE,
              jobs |-> [jobs EXCEPT ![queue_id_param] =
                          [q EXCEPT !.status = "processing", !.provider_id = p,
                                    !.last_attempt = 0, !.attempt_count = @ + 1]],
              avail |-> [avail EXCEPT ![p].current_calls = @ + 1],
              assignments |-> [assignments EXCEPT ![queue_id_param] =
                          Append(@, [provider_id |-> p, assignment_status |-> "assigned"])]]
        ELSE same

\* UPDATE call_assignments SET assignment_status = to
\* WHERE queue_id = j AND assignment_status = 'assigned'
CloseAssignments(as, j, to) ==
    [as EXCEPT ![j] =
        [i \in DOMAIN as[j] |->
            IF as[j][i].assignment_status = "assigned"
            THEN [as[j][i] EXCEPT !.assignment_status = to] ELSE as[j][i]]]

\* current_calls - 1 without GREATEST(0, ...)
ReleaseSlot_NoFloor(av, p) ==
    IF p = NULL THEN av ELSE [av EXCEPT ![p].current_calls = @ - 1]

\* UPDATE provider_availability SET current_calls = GREATEST(0, current_calls - 1)
\* WHERE provider_id = p   (no row matches a NULL provider)
ReleaseSlot(av, p) ==
    IF p = NULL THEN av ELSE [av EXCEPT ![p].current_calls = Max(0, @ - 1)]

complete_call(queue_id_param, call_status_param) ==
    LET q == jobs[queue_id_param]
    IN  IF q.status = "absent"
        THEN [found |-> FALSE, jobs |-> jobs, avail |-> avail,
              assignments |-> assignments, history |-> history, usage |-> usage]
        ELSE [found |-> TRUE,
              history |-> [history EXCEPT ![queue_id_param] =
                          Append(@, [call_status |-> call_status_param,
                                     provider_id |-> q.provider_id,
                                     provider_call_id |-> q.provider_call_id])],
              jobs |-> [jobs EXCEPT ![queue_id_param].status = "completed"],
              avail |-> ReleaseSlot(avail, q.provider_id),
              assignments |-> CloseAssignments(assignments, queue_id_param, "completed"),
              usage |-> [calls_used |-> usage.calls_used + 1,
                         calls_remaining |-> Max(0, usage.calls_remaining - 1)]]

\* IF retry AND queue_record.attempt_count < max_retries
ShouldRetry(q, retry) == retry /\ q.attempt_count < max_retries

\* INSERT INTO call_retries ... ON CONFLICT (queue_id) DO UPDATE
UpsertRetry(r, provider_id_var) ==
    IF r.retry_count = 0
    THEN [retry_count |-> 1, next_retry_time |-> FirstRetryMinutes,
          last_provider_id |-> provider_id_var]
    ELSE [retry_count |-> r.retry_count + 1, next_retry_time |-> Pow2(r.retry_count),
          last_provider_id |-> provider_id_var]

handle_failed_call(queue_id_param, retry) ==
    LET q == jobs[queue_id_param]
        p == q.provider_id
        av == ReleaseSlot(avail, p)
        as == IF p = NULL THEN assignments
              ELSE CloseAssignments(assignments, queue_id_param, "failed")
    IN  IF q.status = "absent"
        THEN [result |-> FALSE, jobs |-> jobs, avail |-> avail,
              assignments |-> assignments, retries |-> retries]
        ELSE IF ShouldRetry(q, retry)
        THEN [result |-> TRUE,
              jobs |-> [jobs EXCEPT ![queue_id_param] =
                          [q EXCEPT !.status = "pending", !.provider_id = NULL,
                                    !.provider_call_id = NULL]],
              avail |-> av, assignments |-> as,
              retries |-> [retries EXCEPT ![queue_id_param] = UpsertRetry(@, p)]]
        ELSE [result |-> FALSE,
              jobs |-> [jobs EXCEPT ![queue_id_param].status = "failed"],
              avail |-> av, assignments |-> as, retries |-> retries]

\* Number of call_history rows
RECURSIVE SumLen(_, _)
SumLen(f, S) ==
    IF S = {} THEN 0
    ELSE LET x == CHOOSE y \in S : TRUE IN Len(f[x]) + SumLen(f, S \ {x})

HistoryRows == SumLen(history, Jobs)

-----------------------------------------------------------------------------
(* Initial state: empty queue, configured providers, a fresh usage row *)

\* The registry the queue processor runs against: p1 before p2, one slot each
Registry ==
    [p \in Providers |->
        [max_concurrent_calls |-> 1, priority |-> IF p = "p1" THEN 1 ELSE 2,
         is_active |-> TRUE]]

Init ==
    /\ jobs = [j \in Jobs |-> AbsentJob]
    /\ providers = Registry
    /\ avail = [p \in Providers |-> [current_calls |-> 0, status |-> "online"]]
    /\ assignments = [j \in Jobs |-> <<>>]
    /\ retries = [j \in Jobs |-> NoRetry]
    /\ history = [j \in Jobs |-> <<>>]
    /\ usage = [calls_used |-> 0, calls_remaining |-> CallLimit]
    /\ disp = [d \in Dispatchers |-> IdleDisp]
    /\ sweep = [pc |-> "idle", stalled |-> {}]
    /\ called = {}
    /\ resp = 0
    /\ probe = IdleProbe

-----------------------------------------------------------------------------
(* Enqueue: the schedule-call edge function followed by schedule_call *)

\* schedule-call without the call limit check
Enqueue_NoQuotaCheck(j, prio, sched, pin) ==
    /\ jobs[j].status = "absent"
    /\ \A k \in Jobs : k < j => jobs[k].status # "absent"
    /\ jobs' = [jobs EXCEPT ![j] =
                  [AbsentJob EXCEPT !.status = "pending", !.priority = prio,
                                    !.created_at = j, !.scheduled_time = sched,
                                    !.assistant_provider = pin[1],
                                    !.phone_provider = pin[2]]]
    /\ UNCHANGED <<providers, avail, assignments, retries, history, usage, disp, sweep, called, resp, probe>>

Enqueue(j, prio, sched, pin) ==
    /\ jobs[j].status = "absent"
    /\ \A k \in Jobs : k < j => jobs[k].status # "absent"
    /\ ~(usage.calls_remaining <= 0)
    /\ jobs' = [jobs EXCEPT ![j] =
                  [AbsentJob EXCEPT !.status = "pending", !.priority = prio,
                                    !.created_at = j, !.scheduled_time = sched,
                                    !.assistant_provider = pin[1],
                                    !.phone_provider = pin[2]]]
    /\ UNCHANGED <<providers, avail, assignments, retries, history, usage, disp, sweep, called, resp, probe>>

\* schedule-call answering "Call limit exceeded"
EnqueueRejected ==
    /\ usage.calls_remaining <= 0
    /\ resp' = 403
    /\ UNCHANGED <<jobs, providers, avail, assignments, retries, history, usage, disp, sweep, called, probe>>

\* CREATE POLICY call_queue_user_policy ON call_queue
\*     USING (user_id = auth.uid()) WITH CHECK (user_id = auth.uid())
\* for the owner of the jobs: every row of theirs, whatever its status
call_queue_user_policy(q) == q.status # "absent"

\* The owner cancels a job: UPDATE call_queue SET status = 'canceled'
\* WHERE id = j, run with the owner's token under row level security
UserCancel(j) ==
    /\ call_queue_user_policy(jobs[j])
    /\ jobs' = [jobs EXCEPT ![j].status = "canceled"]
    /\ UNCHANGED <<providers, avail, assignments, retries, history, usage, disp, sweep, called, resp, probe>>

-----------------------------------------------------------------------------
(* processQueue / processNextCall of one queue processor instance *)

\* processQueue started by a timer that fires whether or not the last tick
\* has finished
TickStart_Interval(d) ==
    /\ disp' = [disp EXCEPT ![d] = [IdleDisp EXCEPT !.pc = "next"]]
    /\ disp'[d] # disp[d]
    /\ UNCHANGED <<jobs, providers, avail, assignments, retries, history, usage, sweep, called, resp, probe>>

\* processQueue starts a tick (setTimeout fired)
TickStart(d) ==
    /\ disp[d].pc = "idle"
    /\ disp' = [disp EXCEPT ![d].pc = "next"]
    /\ UNCHANGED <<jobs, providers, avail, assignments, retries, history, usage, sweep, called, resp, probe>>

\* processNextCall returned: true continues the while loop, false breaks it
Return(d, success) ==
    IF success /\ disp[d].processed + 1 < maxToProcess
    THEN [IdleDisp EXCEPT !.pc = "next", !.processed = disp[d].processed + 1]
    ELSE IdleDisp

\* rpc('get_next_call_in_queue')
GetNext(d) ==
    /\ disp[d].pc = "next"
    /\ LET n == get_next_call_in_queue(jobs)
       IN  \/ /\ n # NoJob
              /\ disp' = [disp EXCEPT ![d] =
                            [@ EXCEPT !.pc = "provider", !.nextCall = n]]
           \/ /\ n = NoJob
              /\ disp' = [disp EXCEPT ![d] = Return(d, FALSE)]
    /\ UNCHANGED <<jobs, providers, avail, assignments, retries, history, usage, sweep, called, resp, probe>>

\* processNextCall going on to the next job when no provider is returned
GetProvider_KeepsPulling(d) ==
    /\ disp[d].pc = "provider"
    /\ \E p \in get_best_available_provider(providers, avail) :
          \/ /\ p # NULL
             /\ disp' = [disp EXCEPT ![d] =
                           [@ EXCEPT !.pc = "assign", !.providerId = p,
                                     !.snap = [o \in Providers |-> avail[o].current_calls]]]
          \/ /\ p = NULL
             /\ disp' = [disp EXCEPT ![d] = [IdleDisp EXCEPT !.pc = "next"]]
    /\ UNCHANGED <<jobs, providers, avail, assignments, retries, history, usage, sweep, called, resp, probe>>

\* rpc('get_best_available_provider')
GetProvider(d) ==
    /\ disp[d].pc = "provider"
    /\ \E p \in get_best_available_provider(providers, avail) :
          \/ /\ p # NULL
             /\ disp' = [disp EXCEPT ![d] =
                           [@ EXCEPT !.pc = "assign", !.providerId = p,
                                     !.snap = [o \in Providers |-> avail[o].current_calls]]]
          \/ /\ p = NULL
             /\ disp' = [disp EXCEPT ![d] = Return(d, FALSE)]
    /\ UNCHANGED <<jobs, providers, avail, assignments, retries, history, usage, sweep, called, resp, probe>>

\* rpc('assign_call_to_provider')
Assign(d) ==
    /\ disp[d].pc = "assign"
    /\ LET r == assign_call_to_provider(disp[d].nextCall, disp[d].providerId)
       IN  /\ jobs' = r.jobs
           /\ avail' = r.avail
           /\ assignments' = r.assignments
           /\ disp' = [disp EXCEPT ![d] =
                         IF r.success THEN [@ EXCEPT !.pc = "load", !.assigned = TRUE]
                         ELSE Return(d, FALSE)]
    /\ UNCHANGED <<providers, retries, history, usage, sweep, called, resp, probe>>

\* handleFailure(queueId, msg): rpc('handle_failed_call', retry: true)
HandleFailure(j) ==
    LET r == handle_failed_call(j, TRUE)
    IN  /\ jobs' = r.jobs
        /\ avail' = r.avail
        /\ assignments' = r.assignments
        /\ retries' = r.retries

\* validationErrors.length > 0: a required template variable is missing or
\* fails its regex
ValidationFails(d) ==
    /\ disp[d].pc = "load"
    /\ HandleFailure(disp[d].nextCall)
    /\ disp' = [disp EXCEPT ![d] = Return(d, FALSE)]
    /\ UNCHANGED <<providers, history, usage, sweep, called, resp, probe>>

\* getProviderClient throws for an unsupported provider_type (or configure,
\* or new RegExp of a template variable, throws): the outer catch returns
\* false
ClientSetupThrows(d) ==
    /\ disp[d].pc = "load"
    /\ disp' = [disp EXCEPT ![d] = Return(d, FALSE)]
    /\ UNCHANGED <<jobs, providers, avail, assignments, retries, history, usage, sweep, called, resp, probe>>

\* Call, provider and template details, template variables, client set-up
Load(d) ==
    /\ disp[d].pc = "load"
    /\ \/ /\ disp' = [disp EXCEPT ![d].pc = "call"]
          /\ UNCHANGED <<jobs, avail, assignments, retries>>
       \/ \* the call, provider or template lookup fails
          /\ HandleFailure(disp[d].nextCall)
          /\ disp' = [disp EXCEPT ![d] = Return(d, FALSE)]
       \/ ValidationFails(d)
       \/ ClientSetupThrows(d)
    /\ UNCHANGED <<providers, history, usage, sweep, called, resp, probe>>

\* providerClient.makeCall
MakeCall(d) ==
    /\ disp[d].pc = "call"
    /\ \/ /\ disp' = [disp EXCEPT ![d].pc = "record"]
          /\ called' = called \cup {disp[d].nextCall}
          /\ UNCHANGED <<jobs, avail, assignments, retries>>
       \/ \* makeCall throws
          /\ HandleFailure(disp[d].nextCall)
          /\ disp' = [disp EXCEPT ![d] = Return(d, FALSE)]
          /\ UNCHANGED called
    /\ UNCHANGED <<providers, history, usage, sweep, resp, probe>>

\* update({ provider_call_id: callResult.callId }).eq('id', queue_id)
RecordCallId(d) ==
    /\ disp[d].pc = "record"
    /\ jobs' = [jobs EXCEPT ![disp[d].nextCall].provider_call_id = "cid"]
    /\ disp' = [disp EXCEPT ![d] = Return(d, TRUE)]
    /\ UNCHANGED <<providers, avail, assignments, retries, history, usage, sweep, called, resp, probe>>

-----------------------------------------------------------------------------
(* The other periodic actors *)

\* updateProviderAvailability: the select of the active providers
ProbeStart ==
    /\ probe.pc = "idle"
    /\ LET act == {p \in Providers : providers[p].is_active}
       IN  probe' = IF act = {} THEN IdleProbe ELSE [pc |-> "loop", todo |-> act]
    /\ UNCHANGED <<jobs, providers, avail, assignments, retries, history, usage, disp, sweep, called, resp>>

\* The loop moves past provider p; after the last one the tick ends and
\* the next one is scheduled
ProbeDone(p) ==
    IF probe.todo = {p} THEN IdleProbe ELSE [probe EXCEPT !.todo = @ \ {p}]

\* checkHealth got an answer and getActiveCallsCount returned n
ProbeOk(p) ==
    /\ probe.pc = "loop" /\ p \in probe.todo
    /\ \E n \in 0..MaxActive, st \in {"online", "degraded"} :
          avail' = [avail EXCEPT ![p] = [current_calls |-> n, status |-> st]]
    /\ probe' = ProbeDone(p)
    /\ UNCHANGED <<jobs, providers, assignments, retries, history, usage, disp, sweep, called, resp>>

\* checkHealth caught a request error and returned status 'offline';
\* getActiveCallsCount returned n
HealthCheckFails(p) ==
    /\ probe.pc = "loop" /\ p \in probe.todo
    /\ \E n \in 0..MaxActive :
          avail' = [avail EXCEPT ![p] = [current_calls |-> n, status |-> "offline"]]
    /\ probe' = ProbeDone(p)
    /\ UNCHANGED <<jobs, providers, assignments, retries, history, usage, disp, sweep, called, resp>>

\* The catch of the loop body without its update
ActiveCallsFails_NoMark(p) ==
    /\ probe.pc = "loop" /\ p \in probe.todo
    /\ probe' = ProbeDone(p)
    /\ UNCHANGED <<jobs, providers, avail, assignments, retries, history, usage, disp, sweep, called, resp>>

\* getActiveCallsCount throws: the catch of the loop body
ActiveCallsFails(p) ==
    /\ probe.pc = "loop" /\ p \in probe.todo
    /\ avail' = [avail EXCEPT ![p].status = "degraded"]
    /\ probe' = ProbeDone(p)
    /\ UNCHANGED <<jobs, providers, assignments, retries, history, usage, disp, sweep, called, resp>>

\* updateProviderAvailability, one provider of the loop
HealthProbe(p) ==
    \/ ProbeOk(p)
    \/ HealthCheckFails(p)
    \/ ActiveCallsFails(p)

\* getProviderClient throws for the provider's provider_type: the outer
\* catch ends the loop, the next tick is scheduled
ProbeAborts(p) ==
    /\ probe.pc = "loop" /\ p \in probe.todo
    /\ probe' = IdleProbe
    /\ UNCHANGED <<jobs, providers, avail, assignments, retries, history, usage, disp, sweep, called, resp>>

\* updateProviderAvailability: the select of the providers returns an error;
\* the function returns before its setTimeout
ProbeQueryFails ==
    /\ probe.pc = "idle"
    /\ probe' = [pc |-> "stopped", todo |-> {}]
    /\ UNCHANGED <<jobs, providers, avail, assignments, retries, history, usage, disp, sweep, called, resp>>

\* updateProviderAvailability
ProbeTick ==
    \/ ProbeStart
    \/ \E p \in Providers : HealthProbe(p)
    \/ \E p \in Providers : ProbeAborts(p)

\* processScheduledCalls
Promote ==
    /\ jobs' = [j \in Jobs |->
                  IF /\ jobs[j].status = "pending"
                     /\ jobs[j].scheduled_time # NoTime
                     /\ jobs[j].scheduled_time < 0
                     /\ jobs[j].provider_id = NULL
                  THEN [jobs[j] EXCEPT !.scheduled_time = NoTime, !.status = "pending"]
                  ELSE jobs[j]]
    /\ UNCHANGED <<providers, avail, assignments, retries, history, usage, disp, sweep, called, resp, probe>>

\* .eq('status', 'processing').lt('last_attempt', now - 30 minutes)
Stalled(q) == q.status = "processing" /\ q.last_attempt > StallTimeoutMinutes

\* checkStalledCalls: the select
SweepScan ==
    /\ sweep.pc = "idle"
    /\ LET s == {j \in Jobs : Stalled(jobs[j])}
       IN  sweep' = IF s = {} THEN sweep ELSE [pc |-> "handle", stalled |-> s]
    /\ UNCHANGED <<jobs, providers, avail, assignments, retries, history, usage, disp, called, resp, probe>>

\* checkStalledCalls: handleFailure for one selected row
SweepHandle ==
    /\ sweep.pc = "handle"
    /\ \E j \in sweep.stalled :
          /\ HandleFailure(j)
          /\ sweep' = IF sweep.stalled = {j} THEN [pc |-> "idle", stalled |-> {}]
                      ELSE [sweep EXCEPT !.stalled = @ \ {j}]
    /\ UNCHANGED <<providers, history, usage, disp, called, resp, probe>>

\* checkStalledCalls: the select returns an error; the function returns
\* before its setTimeout
SweepQueryFails ==
    /\ sweep.pc = "idle"
    /\ sweep' = [pc |-> "stopped", stalled |-> {}]
    /\ UNCHANGED <<jobs, providers, avail, assignments, retries, history, usage, disp, called, resp, probe>>

-----------------------------------------------------------------------------
(* Inbound events *)

\* A handler that also finalizes on in-progress
FinalStatuses_WithInProgress == {"completed", "failed", "canceled", "in-progress"}

FinalStatuses == {"completed", "failed", "canceled"}

\* determineProvider: the payload formats
ProviderFormats == {"vapi", "synthflow", "unknown"}

\* The status field of a payload as the provider sends it (NULL = no field)
RawStatuses ==
    {"queued", "in-progress", "completed", "failed", "ringing",
     "QUEUED", "CONNECTED", "COMPLETED", "NO_ANSWER", "CANCELLED", NULL}

\* extractStandardData(body, provider).status
extractStandardData(provider, raw) ==
    IF provider = "vapi"
    THEN \* statusMap[vapiBody.status] || vapiBody.status
         CASE raw = "queued" -> "pending"
           [] raw \in {"in-progress", "completed", "failed", "canceled"} -> raw
           [] OTHER -> raw
    ELSE IF provider = "synthflow"
    THEN \* statusMap[synthFlowBody.status] || 'unknown'
         CASE raw \in {"QUEUED", "CONNECTING"} -> "pending"
           [] raw \in {"IN_PROGRESS", "CONNECTED"} -> "in-progress"
           [] raw = "COMPLETED" -> "completed"
           [] raw \in {"FAILED", "ERROR", "NO_ANSWER"} -> "failed"
           [] raw = "CANCELLED" -> "canceled"
           [] OTHER -> "unknown"
    ELSE \* body.status || 'unknown'
         IF raw = NULL THEN "unknown" ELSE raw

\* call-webhook without the queue record lookup
Webhook_NoLookup(queueId, status) ==
    /\ HistoryRows < MaxHistory
    /\ IF queueId = NoJob
       THEN /\ resp' = 400
            /\ UNCHANGED <<jobs, avail, assignments, history, usage>>
       ELSE IF status \in FinalStatuses
       THEN LET r == IF queueId \in Jobs THEN complete_call(queueId, status)
                     ELSE [found |-> FALSE, jobs |-> jobs, avail |-> avail,
                           assignments |-> assignments, history |-> history,
                           usage |-> usage]
            IN  /\ jobs' = r.jobs
                /\ avail' = r.avail
                /\ assignments' = r.assignments
                /\ history' = r.history
                /\ usage' = r.usage
                /\ resp' = IF r.found THEN 200 ELSE 500
       ELSE /\ resp' = 200
            /\ UNCHANGED <<jobs, avail, assignments, history, usage>>
    /\ UNCHANGED <<providers, retries, disp, sweep, called, probe>>

\* call-webhook edge function, after determineProvider/extractStandardData
Webhook(queueId, status) ==
    /\ HistoryRows < MaxHistory
    /\ IF queueId = NoJob
       THEN /\ resp' = 400
            /\ UNCHANGED <<jobs, avail, assignments, history, usage>>
       ELSE IF queueId \notin Jobs \/ jobs[queueId].status = "absent"
       THEN /\ resp' = 404
            /\ UNCHANGED <<jobs, avail, assignments, history, usage>>
       ELSE IF status \in FinalStatuses
       THEN LET r == complete_call(queueId, status)
            IN  /\ jobs' = r.jobs
                /\ avail' = r.avail
                /\ assignments' = r.assignments
                /\ history' = r.history
                /\ usage' = r.usage
                /\ resp' = IF r.found THEN 200 ELSE 500
       ELSE /\ resp' = 200
            /\ UNCHANGED <<jobs, avail, assignments, history, usage>>
    /\ UNCHANGED <<providers, retries, disp, sweep, called, probe>>

\* call-webhook edge function for a payload of the given format
ProviderEvent(queueId, provider, raw) ==
    Webhook(queueId, extractStandardData(provider, raw))

\* handleCallCompletion of the queue processor
HandleCallCompletion(queueId, status) ==
    /\ HistoryRows < MaxHistory
    /\ LET r == IF queueId \in Jobs THEN complete_call(queueId, status)
                ELSE [found |-> FALSE, jobs |-> jobs, avail |-> avail,
                      assignments |-> assignments, history |-> history, usage |-> usage]
       IN  /\ jobs' = r.jobs
           /\ avail' = r.avail
           /\ assignments' = r.assignments
           /\ history' = r.history
           /\ usage' = r.usage
           /\ resp' = IF r.found THEN 200 ELSE 500
    /\ UNCHANGED <<providers, retries, disp, sweep, called, probe>>

\* call-webhook: req.json() rejects (the body is not JSON) or the body is
\* null, and the outer catch answers
BodyUnreadable ==
    /\ resp' = 500
    /\ UNCHANGED <<jobs, providers, avail, assignments, retries, history, usage, disp, sweep, called, probe>>

\* call-webhook: the call_queue select returns an error other than "no row"
LookupFails(queueId) ==
    /\ queueId # NoJob
    /\ resp' = 404
    /\ UNCHANGED <<jobs, providers, avail, assignments, retries, history, usage, disp, sweep, called, probe>>

\* call-webhook: rpc("complete_call") returns an error; the function's
\* transaction is rolled back
FinalizeFails(queueId, status) ==
    /\ queueId \in Jobs
    /\ jobs[queueId].status # "absent"
    /\ status \in FinalStatuses
    /\ resp' = 500
    /\ UNCHANGED <<jobs, providers, avail, assignments, retries, history, usage, disp, sweep, called, probe>>

\* The paths of call-webhook on which a query or the request body fails
HookFaults(Q, Ev) ==
    \/ BodyUnreadable
    \/ \E q \in Q : LookupFails(q)
    \/ \E q \in Q, st \in Ev : FinalizeFails(q, st)

-----------------------------------------------------------------------------
(* Passage of time *)

Advance(d) ==
    /\ jobs' = [j \in Jobs |->
                  [jobs[j] EXCEPT
                     !.last_attempt =
                        IF jobs[j].status = "processing"
                        THEN Min(StallTimeoutMinutes + 1, @ + d) ELSE @,
                     !.scheduled_time = IF @ = NoTime THEN @ ELSE Max(-1, @ - d)]]
    /\ retries' = [j \in Jobs |-> [retries[j] EXCEPT !.next_retry_time = Max(0, @ - d)]]
    /\ UNCHANGED <<providers, avail, assignments, history, usage, disp, sweep, called, resp, probe>>

-----------------------------------------------------------------------------

\* processQueue of the queue processor instances D
Dispatch(D) ==
    \/ \E d \in D : TickStart(d)
    \/ \E d \in D : GetNext(d)
    \/ \E d \in D : GetProvider(d)
    \/ \E d \in D : Assign(d)
    \/ \E d \in D : Load(d)
    \/ \E d \in D : MakeCall(d)
    \/ \E d \in D : RecordCallId(d)

\* checkStalledCalls
StallSweep ==
    \/ SweepScan
    \/ SweepHandle

\* Provider events with the queue ids Q and outcomes Ev
Inbound(Q, Ev) ==
    \/ \E q \in Q, st \in Ev : Webhook(q, st)
    \/ \E q \in Q \cap Jobs, st \in Ev : HandleCallCompletion(q, st)

\* The whole system
Next ==
    \/ \E j \in Jobs, prio \in Priorities, sched \in ScheduleDelays, pin \in Pins :
          Enqueue(j, prio, sched, pin)
    \/ EnqueueRejected
    \/ \E j \in Jobs : UserCancel(j)
    \/ Dispatch(Dispatchers)
    \/ ProbeTick
    \/ ProbeQueryFails
    \/ Promote
    \/ StallSweep
    \/ SweepQueryFails
    \/ Inbound(called \cup {NoJob, UnknownJob}, Outcomes)
    \/ HookFaults(called \cup {NoJob, UnknownJob}, Outcomes)
    \/ \E d \in TimeSteps : Advance(d)

Spec == Init /\ [][Next]_vars

-----------------------------------------------------------------------------
(* The state space of Spec is beyond exhaustive search; the properties are  *)
(* checked on the following sub-systems, each with all the actors the       *)
(* property is about.                                                       *)

\* One job through its whole life: one queue processor, the stall sweep,
\* time, and provider events that may be lost, late or repeated
NextJob ==
    \/ Enqueue(1, 1, NoTime, <<NULL, NULL>>)
    \/ Dispatch({"d1"})
    \/ StallSweep
    \/ Inbound(called, {"completed", "failed"})
    \/ \E d \in TimeSteps : Advance(d)

SpecJob == Init /\ [][NextJob]_vars

\* Two queue processor instances competing for two jobs and two providers
\* of one slot each; a job may be pinned to p2 by its phone number
NextRace ==
    \/ \E j \in Jobs, pin \in {<<NULL, NULL>>, <<NULL, "p2">>} : Enqueue(j, 1, NoTime, pin)
    \/ Dispatch(Dispatchers)

SpecRace == Init /\ [][NextRace]_vars

\* One job, one queue processor, success events only, time: no stall sweep
NextRetry ==
    \/ Enqueue(1, 1, NoTime, <<NULL, NULL>>)
    \/ Dispatch({"d1"})
    \/ Inbound(called, {"completed"})
    \/ \E d \in TimeSteps : Advance(d)

SpecRetry == Init /\ [][NextRetry]_vars

\* The sub-system of SpecJob under the scheduling the timers give: the queue
\* processor, the stall sweep and the clock keep taking steps.  Provider
\* events carry no fairness: any of them may be lost.
Fairness ==
    /\ WF_vars(Dispatch({"d1"}))
    /\ WF_vars(StallSweep)
    /\ WF_vars(Advance(StallTimeoutMinutes + 1))

SpecLive == Init /\ [][NextJob]_vars /\ Fairness

\* Contents of call_queue for get_next_call_in_queue: rows that are pending
\* (due, overdue, scheduled ahead or immediate), processing or completed, of
\* either priority, created in either order
QueueInputs ==
    {t \in [Jobs -> [status : {"pending", "processing", "completed"},
                     priority : Priorities,
                     scheduled_time : {NoTime, -1, 0, StallTimeoutMinutes},
                     created_at : Jobs]] :
        /\ \A j, k \in Jobs : j # k => t[j].created_at # t[k].created_at
        /\ \A j \in Jobs : t[j].status # "pending" => t[j].scheduled_time = NoTime}

\* The provider a row of QueueInputs was assigned to
InputProvider(j) == IF j = 1 THEN "p1" ELSE "p2"

InitQueue ==
    \E t \in QueueInputs :
        /\ jobs = [j \in Jobs |->
                     [AbsentJob EXCEPT
                        !.status = t[j].status, !.priority = t[j].priority,
                        !.created_at = t[j].created_at,
                        !.scheduled_time = t[j].scheduled_time,
                        !.provider_id = IF t[j].status = "pending" THEN NULL
                                        ELSE InputProvider(j),
                        !.provider_call_id = IF t[j].status = "pending" THEN NULL ELSE "cid",
                        !.attempt_count = IF t[j].status = "pending" THEN 0 ELSE 1]]
        /\ providers = Registry
        /\ avail = [p \in Providers |->
                      [current_calls |->
                          Cardinality({j \in Jobs : /\ t[j].status = "processing"
                                                    /\ InputProvider(j) = p}),
                       status |-> "online"]]
        /\ assignments = [j \in Jobs |->
                            IF t[j].status = "pending" THEN <<>>
                            ELSE <<[provider_id |-> InputProvider(j),
                                    assignment_status |->
                                       IF t[j].status = "processing" THEN "assigned"
                                       ELSE "completed"]>>]
        /\ retries = [j \in Jobs |-> NoRetry]
        /\ history = [j \in Jobs |->
                        IF t[j].status = "completed"
                        THEN <<[call_status |-> "completed",
                                provider_id |-> InputProvider(j),
                                provider_call_id |-> "cid"]>>
                        ELSE <<>>]
        /\ usage = LET n == Cardinality({j \in Jobs : t[j].status = "completed"})
                   IN  [calls_used |-> n, calls_remaining |-> Max(0, CallLimit - n)]
        /\ disp = [d \in Dispatchers |-> IdleDisp]
        /\ sweep = [pc |-> "idle", stalled |-> {}]
        /\ called = {j \in Jobs : t[j].status # "pending"}
        /\ resp = IF \E j \in Jobs : t[j].status = "completed" THEN 200 ELSE 0
        /\ probe = IdleProbe

\* A queue processor asking for the next call
NextQueue ==
    \/ TickStart("d1")
    \/ GetNext("d1")

SpecQueue == InitQueue /\ [][NextQueue]_vars

\* One job and one queue processor while the health probe changes the
\* providers' snapshots; the queue processor keeps ticking
NextOutage ==
    \/ Enqueue(1, 1, NoTime, <<NULL, NULL>>)
    \/ Dispatch({"d1"})
    \/ ProbeTick

SpecOutage == Init /\ [][NextOutage]_vars /\ WF_vars(Dispatch({"d1"}))

\* The webhook surface with every kind of request, for one job and one
\* queue processor
NextHook ==
    \/ Enqueue(1, 1, NoTime, <<NULL, NULL>>)
    \/ Dispatch({"d1"})
    \/ Inbound(called \cup {NoJob, UnknownJob}, Outcomes)
    \/ HookFaults(called \cup {NoJob, UnknownJob}, Outcomes)

SpecHook == Init /\ [][NextHook]_vars

\* One queue processor working through a batch of two jobs
NextBatch ==
    \/ \E j \in Jobs, prio \in Priorities : Enqueue(j, prio, NoTime, <<NULL, NULL>>)
    \/ Dispatch({"d1"})

SpecBatch == Init /\ [][NextBatch]_vars

\* The enqueue surface while the owner's allowance is used up by completed
\* calls
NextQuota ==
    \/ \E j \in Jobs : Enqueue(j, 1, NoTime, <<NULL, NULL>>)
    \/ EnqueueRejected
    \/ Dispatch({"d1"})
    \/ Inbound(called, {"completed"})

SpecQuota == Init /\ [][NextQuota]_vars

\* One queue processor, and the owner enqueueing and cancelling jobs
NextCancel ==
    \/ \E j \in Jobs : Enqueue(j, 1, NoTime, <<NULL, NULL>>)
    \/ Dispatch({"d1"})
    \/ \E j \in Jobs : UserCancel(j)

SpecCancel == Init /\ [][NextCancel]_vars

\* The rows of call_service_providers joined with provider_availability that
\* get_best_available_provider is applied to. current_calls is whatever the
\* provider last reported (updateProviderAvailability), so it may be at or
\* above max_concurrent_calls.
SelectInputs ==
    [Providers -> [is_active : BOOLEAN,
                   max_concurrent_calls : 1..MaxSlots,
                   priority : {1, 2},
                   current_calls : 0..MaxSlots,
                   status : HealthStatuses]]

InitSelect ==
    \E t \in SelectInputs :
        /\ jobs = [j \in Jobs |->
                     IF j = 1
                     THEN [AbsentJob EXCEPT !.status = "pending", !.priority = 1,
                                            !.created_at = 1]
                     ELSE AbsentJob]
        /\ providers = [p \in Providers |->
                          [max_concurrent_calls |-> t[p].max_concurrent_calls,
                           priority |-> t[p].priority,
                           is_active |-> t[p].is_active]]
        /\ avail = [p \in Providers |->
                      [current_calls |-> t[p].current_calls, status |-> t[p].status]]
        /\ assignments = [j \in Jobs |-> <<>>]
        /\ retries = [j \in Jobs |-> NoRetry]
        /\ history = [j \in Jobs |-> <<>>]
        /\ usage = [calls_used |-> 0, calls_remaining |-> CallLimit]
        /\ disp = [d \in Dispatchers |-> IdleDisp]
        /\ sweep = [pc |-> "idle", stalled |-> {}]
        /\ called = {}
        /\ resp = 0
        /\ probe = IdleProbe

\* A queue processor picking a provider for the pending call
NextSelect ==
    \/ TickStart("d1")
    \/ GetNext("d1")
    \/ GetProvider("d1")

SpecSelect == InitSelect /\ [][NextSelect]_vars

\* The four periodic actors of startProcessing around one scheduled job,
\* while the providers' call counts cannot be obtained and the store queries
\* of the probe and of the sweep may fail
NextTimers ==
    \/ Enqueue(1, 1, StallTimeoutMinutes, <<NULL, NULL>>)
    \/ Dispatch({"d1"})
    \/ ProbeStart
    \/ \E p \in Providers : ActiveCallsFails(p)
    \/ ProbeQueryFails
    \/ Promote
    \/ StallSweep
    \/ SweepQueryFails
    \/ Advance(StallTimeoutMinutes + 1)

SpecTimers == Init /\ [][NextTimers]_vars

\* The tables complete_call runs against when an event arrives for a call in
\* flight: both jobs processing on their first attempt, the external call id
\* recorded or not (the update after makeCall is not checked), current_calls
\* as last written by the health probe, the owner's allowance anywhere from
\* untouched to used up
SuccessInputs ==
    [cur : [Providers -> 0..MaxActive],
     rem : 0..CallLimit,
     cid : [Jobs -> {NULL, "cid"}]]

InitSuccess ==
    \E t \in SuccessInputs :
        /\ jobs = [j \in Jobs |->
                     [AbsentJob EXCEPT !.status = "processing", !.priority = 1,
                                       !.created_at = j,
                                       !.provider_id = InputProvider(j),
                                       !.provider_call_id = t.cid[j],
                                       !.attempt_count = 1]]
        /\ providers = Registry
        /\ avail = [p \in Providers |-> [current_calls |-> t.cur[p], status |-> "online"]]
        /\ assignments = [j \in Jobs |->
                            <<[provider_id |-> InputProvider(j),
                               assignment_status |-> "assigned"]>>]
        /\ retries = [j \in Jobs |-> NoRetry]
        /\ history = [j \in Jobs |-> <<>>]
        /\ usage = [calls_used |-> CallLimit - t.rem, calls_remaining |-> t.rem]
        /\ disp = [d \in Dispatchers |-> IdleDisp]
        /\ sweep = [pc |-> "idle", stalled |-> {}]
        /\ called = Jobs
        /\ resp = 0
        /\ probe = IdleProbe

\* Completed events of the two calls, through either handler
NextSuccess == Inbound(called, {"completed"})

SpecSuccess == InitSuccess /\ [][NextSuccess]_vars

\* One job, one queue processor, and payloads of every format and status
\* arriving at call-webhook
NextEvents ==
    \/ Enqueue(1, 1, NoTime, <<NULL, NULL>>)
    \/ Dispatch({"d1"})
    \/ \E q \in called \cup {NoJob, UnknownJob}, pv \in ProviderFormats, raw \in RawStatuses :
          ProviderEvent(q, pv, raw)

SpecEvents == Init /\ [][NextEvents]_vars

\* calls_remaining of an owner whose plan allows a single call in the
\* billing period
SingleCallAllowance == 1

\* The state after construction for that owner
InitAllowance ==
    /\ jobs = [j \in Jobs |-> AbsentJob]
    /\ providers = Registry
    /\ avail = [p \in Providers |-> [current_calls |-> 0, status |-> "online"]]
    /\ assignments = [j \in Jobs |-> <<>>]
    /\ retries = [j \in Jobs |-> NoRetry]
    /\ history = [j \in Jobs |-> <<>>]
    /\ usage = [calls_used |-> 0, calls_remaining |-> SingleCallAllowance]
    /\ disp = [d \in Dispatchers |-> IdleDisp]
    /\ sweep = [pc |-> "idle", stalled |-> {}]
    /\ called = {}
    /\ resp = 0
    /\ probe = IdleProbe

\* The enqueue surface of SpecQuota for the owner with a single call left
SpecAllowance == InitAllowance /\ [][NextQuota]_vars

-----------------------------------------------------------------------------
(* Properties *)

\* The job names an assistant or a phone number that resolves to a provider
Pinned(q) == q.assistant_provider # NULL \/ q.phone_provider # NULL

\* C1: an assign_call_to_provider attempt on a pending job moves it to
\* processing and returns true; an attempt on a job that another attempt has
\* already moved returns false and changes no row (no attempt_count or
\* current_calls increment, no assignment record).
C1_OneAssignmentWins ==
    [][\A d \in Dispatchers :
          Assign(d) =>
             LET j == disp[d].nextCall
             IN  IF jobs[j].status = "pending"
                 THEN /\ disp'[d].assigned
                      /\ jobs'[j].status = "processing"
                      /\ jobs'[j].attempt_count = jobs[j].attempt_count + 1
                      /\ Len(assignments'[j]) = Len(assignments[j]) + 1
                 ELSE /\ ~disp'[d].assigned
                      /\ disp'[d].pc = "idle"
                      /\ UNCHANGED <<jobs, avail, assignments, retries>>]_vars

\* Both instances have read the same job from the queue and one of them has
\* won it; the other is about to run its own assign_call_to_provider on it.
C1_Witness ==
    \E d, e \in Dispatchers :
        /\ d # e
        /\ disp[d].assigned /\ disp[d].pc = "load"
        /\ disp[e].pc = "assign" /\ disp[e].nextCall = disp[d].nextCall
        /\ jobs[disp[d].nextCall].attempt_count = 1

LegalTransitions ==
    {<<"absent", "pending">>, <<"pending", "processing">>,
     <<"processing", "completed">>, <<"processing", "failed">>,
     <<"processing", "canceled">>, <<"processing", "pending">>}

C3_NoDuplicateHistory ==
    /\ \A j \in Jobs : Len(history[j]) <= 1
    /\ usage.calls_used <= Cardinality({j \in Jobs : history[j] # <<>>})

\* C4: a webhook event for a job that is completed, failed or canceled is
\* answered 200 and changes no job, counter, assignment, history or usage row.
C4_TerminalEventIsNoOp ==
    [][\A q \in Jobs, st \in Outcomes :
          (Webhook(q, st) /\ jobs[q].status \in Terminal) =>
             /\ resp' = 200
             /\ UNCHANGED <<jobs, avail, assignments, history, usage>>]_vars

C6_AttemptCeiling ==
    \A j \in Jobs : jobs[j].attempt_count <= max_retries + 1

\* A job used up its attempts and was failed for good.
C6_Witness ==
    \E j \in Jobs :
        /\ jobs[j].attempt_count = max_retries
        /\ jobs[j].status = "failed"
        /\ retries[j].retry_count >= max_retries - 1

C8_NextIsMostUrgentDue ==
    [][\A d \in Dispatchers :
          GetNext(d) =>
             LET E == {j \in Jobs : /\ jobs[j].status = "pending"
                                    /\ \/ jobs[j].scheduled_time = NoTime
                                       \/ jobs[j].scheduled_time <= 0}
                 n == disp'[d].nextCall
             IN  IF E = {} THEN disp'[d].pc = "idle" /\ n = NoJob
                 ELSE /\ disp'[d].pc = "provider"
                      /\ n \in E
                      /\ \A k \in E \ {n} :
                            \/ jobs[n].priority < jobs[k].priority
                            \/ /\ jobs[n].priority = jobs[k].priority
                               /\ jobs[n].created_at < jobs[k].created_at]_vars

\* With a priority-5 job and a later priority-1 job both pending and due,
\* the queue processor got the priority-1 job.
C8_Witness ==
    \E d \in Dispatchers : \E n, k \in Jobs :
        /\ disp[d].pc = "provider" /\ disp[d].nextCall = n
        /\ jobs[n].status = "pending" /\ jobs[k].status = "pending"
        /\ jobs[n].priority = 1 /\ jobs[k].priority = 5
        /\ jobs[n].created_at > jobs[k].created_at
        /\ jobs[k].scheduled_time \in {NoTime, -1, 0}

C11_RejectedIsNotRetried ==
    [][\A d \in Dispatchers :
          ValidationFails(d) => jobs'[disp[d].nextCall].status = "failed"]_vars

\* C12: a failed event for a processing job hands the job to the retry
\* path (pending again, or failed for good), a canceled event makes it
\* canceled; neither leaves the job completed.
C12_FailureOutcomeNotCompleted ==
    [][\A q \in Jobs :
          /\ (jobs[q].status = "processing" /\ Webhook(q, "failed")) =>
                jobs'[q].status \in {"pending", "failed"}
          /\ (jobs[q].status = "processing" /\ Webhook(q, "canceled")) =>
                jobs'[q].status = "canceled"]_vars

NoneOnline == \A p \in Providers : avail[p].status # "online"

SomeProviderFree ==
    \E p \in Providers : /\ providers[p].is_active
                          /\ avail[p].status = "online"
                          /\ avail[p].current_calls < providers[p].max_concurrent_calls

C14_SweepHandlesStalledOnly ==
    [][/\ (sweep.pc = "idle" /\ sweep'.pc = "handle") =>
             sweep'.stalled =
                {j \in Jobs : /\ jobs[j].status = "processing"
                              /\ jobs[j].last_attempt > StallTimeoutMinutes}
       /\ \A j \in Jobs :
             (sweep.pc = "handle" /\ j \in sweep.stalled \ sweep'.stalled) =>
                /\ ~(/\ jobs[j].status = "processing"
                      /\ jobs[j].last_attempt <= StallTimeoutMinutes)
                /\ (/\ jobs[j].status = "processing"
                     /\ jobs[j].last_attempt > StallTimeoutMinutes) =>
                       IF jobs[j].attempt_count < max_retries
                       THEN /\ jobs'[j].status = "pending"
                            /\ jobs'[j].provider_id = NULL
                            /\ retries'[j].retry_count = retries[j].retry_count + 1
                       ELSE jobs'[j].status = "failed"]_vars

\* C15 as stated: a request from which no queue id can be extracted, an
\* unreadable body included, is answered 400.
C15_NoIdIs400 ==
    [][(BodyUnreadable \/ \E st \in Outcomes : Webhook(NoJob, st)) => resp' = 400]_vars

\* C15 amended: a readable payload without queue id is answered 400 and one
\* whose id matches no job (or whose lookup fails) 404, both without any
\* change to the stored rows; an unreadable body and a failed complete_call
\* are answered 500; every other request is answered 200.
C15_ResponseCodes ==
    [][/\ \A st \in Outcomes :
             /\ Webhook(NoJob, st) =>
                   /\ resp' = 400
                   /\ UNCHANGED <<jobs, avail, assignments, retries, history, usage>>
             /\ \A q \in Jobs \cup {UnknownJob} :
                   Webhook(q, st) =>
                      IF q \in Jobs /\ jobs[q].status # "absent"
                      THEN resp' = 200
                      ELSE /\ resp' = 404
                           /\ UNCHANGED <<jobs, avail, assignments, retries, history, usage>>
             /\ \A q \in Jobs : FinalizeFails(q, st) => resp' = 500
       /\ BodyUnreadable => resp' = 500
       /\ \A q \in Jobs \cup {UnknownJob} :
             LookupFails(q) =>
                /\ resp' = 404
                /\ UNCHANGED <<jobs, avail, assignments, retries, history, usage>>]_vars

\* An event for an unknown queue id was answered 404 while a job's call was
\* in flight, and the job is untouched.
C15_Witness ==
    /\ resp = 404
    /\ \E j \in Jobs : /\ jobs[j].status = "processing"
                         /\ j \in called
                         /\ history[j] = <<>>

\* Jobs in flight
globalInFlightCount == Cardinality({j \in Jobs : jobs[j].status = "processing"})

\* C16: the queue processor assigns a job only while fewer jobs are in
\* flight than the global concurrency limit (budget > 0), so the number of
\* jobs in flight never exceeds the limit.
C16_GlobalBudgetRespected ==
    [][\A d \in Dispatchers :
          (Assign(d) /\ disp'[d].assigned) =>
             /\ globalConcurrencyLimit - globalInFlightCount > 0
             /\ globalInFlightCount' <= globalConcurrencyLimit]_vars

\* C17: when a job's details cannot be loaded or its call initiation throws
\* while another job is pending and due and an online provider has a free
\* slot, the tick goes on to pull the next job.
C17_FailureDoesNotAbortBatch ==
    [][\A d \in Dispatchers :
          (/\ \/ disp[d].pc = "load" /\ disp'[d].pc \notin {"load", "call"}
              \/ disp[d].pc = "call" /\ disp'[d].pc \notin {"call", "record"}
           /\ Eligible(jobs') \ {disp[d].nextCall} # {}
           /\ SomeProviderFree') =>
              disp'[d].pc = "next"]_vars

\* C18: a job is created only while the owner's calls_remaining is above
\* zero, and it starts pending with attempt_count 0 and no provider; a
\* request made with calls_remaining <= 0 is answered 403 and creates no job.
C18_QuotaCheckedAtEnqueue ==
    [][/\ \A j \in Jobs :
             (jobs[j].status = "absent" /\ jobs'[j].status # "absent") =>
                /\ usage.calls_remaining > 0
                /\ jobs'[j].status = "pending"
                /\ jobs'[j].attempt_count = 0
                /\ jobs'[j].provider_id = NULL
       /\ EnqueueRejected => (resp' = 403 /\ UNCHANGED <<jobs, usage>>)
       /\ usage.calls_remaining <= 0 =>
             /\ ENABLED EnqueueRejected
             /\ ~ENABLED (\E j \in Jobs : Enqueue(j, 1, NoTime, <<NULL, NULL>>))]_vars

\* With the allowance used up and a job id still free, a request was
\* rejected.
C18_Witness ==
    /\ resp = 403
    /\ usage.calls_remaining = 0
    /\ \E j \in Jobs : jobs[j].status = "absent"

\* C19: a cancellation by the owner changes a job only if the job is
\* pending.
C19_CancelOnlyWhilePending ==
    [][\A j \in Jobs :
          (UserCancel(j) /\ jobs'[j] # jobs[j]) => jobs[j].status = "pending"]_vars

\* Slots a provider has left according to its availability row
RemainingCapacity(p) == providers[p].max_concurrent_calls - avail[p].current_calls

\* C20: get_best_available_provider returns only a provider that is active,
\* online in its availability row and below max_concurrent_calls; among
\* those, one with the greatest remaining capacity and, among equals, the
\* lowest priority number; it returns none when no provider qualifies.
C20_BestProviderSelected ==
    [][\A d \in Dispatchers :
          GetProvider(d) =>
            LET E == {p \in Providers : /\ providers[p].is_active
                                        /\ avail[p].status = "online"
                                        /\ avail[p].current_calls
                                              < providers[p].max_concurrent_calls}
                r == disp'[d].providerId
            IN  IF E = {}
                THEN disp'[d].pc = "idle" /\ r = NULL
                ELSE /\ disp'[d].pc = "assign"
                     /\ r \in E
                     /\ \A o \in E :
                           /\ RemainingCapacity(r) >= RemainingCapacity(o)
                           /\ RemainingCapacity(r) = RemainingCapacity(o)
                                 => providers[r].priority <= providers[o].priority]_vars

\* Both providers qualify and the one with the higher priority number was
\* returned because it has more capacity left
C20_Witness ==
    /\ disp["d1"].pc = "assign"
    /\ disp["d1"].providerId = "p2"
    /\ ProviderEligible(providers, avail, "p1")
    /\ ProviderEligible(providers, avail, "p2")
    /\ RemainingCapacity("p2") > RemainingCapacity("p1")
    /\ providers["p2"].priority > providers["p1"].priority

\* The delay handle_failed_call writes into next_retry_time at the n-th
\* requeue of a job (n >= 1): the VALUES branch, then the ON CONFLICT branch
RetryDelay(n) ==
    UpsertRetry([NoRetry EXCEPT !.retry_count = n - 1], NULL).next_retry_time

ProbeGoesOn(p) ==
    /\ providers' = providers
    /\ \A o \in Providers \ {p} : avail'[o] = avail[o]
    /\ probe'.todo = probe.todo \ {p}
    /\ probe.todo # {p} => probe'.pc = "loop"

C24_TicksDoNotOverlap ==
    [][\A d \in Dispatchers :
          /\ TickStart(d) =>
                /\ disp[d].pc = "idle"
                /\ disp[d].nextCall = NoJob /\ ~disp[d].assigned
          /\ (disp[d].pc # "idle" /\ disp'[d].pc = "idle") =>
                /\ disp'[d].nextCall = NoJob /\ ~disp'[d].assigned
                /\ ~ENABLED TickStart(d)]_vars

\* The second processNextCall of one tick has its call in flight at the
\* provider while the first job of the tick is in flight too
C24_Witness ==
    \E d \in Dispatchers :
        /\ disp[d].processed = 1
        /\ disp[d].pc = "record"
        /\ \A j \in Jobs : jobs[j].status = "processing"

\* C25: a processNextCall that has assigned its job and ends without the
\* call being initiated has handed the job to handle_failed_call: the job is
\* not left processing.
C25_FailedDispatchIsHandedOver ==
    [][\A d \in Dispatchers :
          (/\ disp[d].assigned
           /\ disp[d].pc \in {"load", "call"}
           /\ disp'[d].pc \notin {"load", "call", "record"}) =>
              jobs'[disp[d].nextCall].status # "processing"]_vars

C27_LoopsKeepRunning ==
    /\ sweep.pc # "stopped"
    /\ probe.pc # "stopped"

\* C28: the owner's usage row changes only in a step that finalizes a job
\* with a completed event; a failed or canceled event leaves it as it is.
C28_UsageCountsSuccessOnly ==
    [][/\ usage' # usage =>
             \E q \in Jobs : Webhook(q, "completed") \/ HandleCallCompletion(q, "completed")
       /\ \A q \in Jobs, st \in {"failed", "canceled"} :
             (Webhook(q, st) \/ HandleCallCompletion(q, st)) => usage' = usage]_vars

\* The call_assignments rows of job j with assignment_status 'assigned'
OpenAssignments(j) ==
    {i \in DOMAIN assignments[j] : assignments[j][i].assignment_status = "assigned"}

\* C29: a job has one call_assignments row with status 'assigned' while it
\* is processing and none otherwise; the row is closed, as failed or
\* completed, in the step in which the job stops being processing.
C29_OneOpenAssignment ==
    \A j \in Jobs :
        Cardinality(OpenAssignments(j)) = IF jobs[j].status = "processing" THEN 1 ELSE 0

\* C30: a completed event for a processing job, in one step, sets the job
\* completed, takes one off its provider's current_calls (not below 0) and
\* touches no other provider, appends one call_history row with the job's
\* provider and provider_call_id, closes the job's open assignment row as
\* completed, and takes one off the owner's calls_remaining (not below 0).
C30_SuccessEventFinalizes ==
    [][\A q \in Jobs :
          (/\ jobs[q].status = "processing"
           /\ Webhook(q, "completed") \/ HandleCallCompletion(q, "completed")) =>
             LET pr == jobs[q].provider_id
                 n == Len(history[q])
             IN  /\ jobs'[q].status = "completed"
                 /\ avail'[pr].current_calls = Max(0, avail[pr].current_calls - 1)
                 /\ \A o \in Providers \ {pr} : avail'[o] = avail[o]
                 /\ Len(history'[q]) = n + 1
                 /\ \A i \in 1..n : history'[q][i] = history[q][i]
                 /\ history'[q][n + 1] = [call_status |-> "completed", provider_id |-> pr,
                                          provider_call_id |-> jobs[q].provider_call_id]
                 /\ \A k \in Jobs \ {q} : history'[k] = history[k]
                 /\ \A i \in DOMAIN assignments[q] :
                       assignments'[q][i].assignment_status =
                          IF assignments[q][i].assignment_status = "assigned"
                          THEN "completed" ELSE assignments[q][i].assignment_status
                 /\ \E i \in DOMAIN assignments[q] :
                       assignments[q][i].assignment_status = "assigned"
                 /\ usage'.calls_remaining = Max(0, usage.calls_remaining - 1)
                 /\ usage'.calls_used = usage.calls_used + 1
                 /\ resp' = 200]_vars

\* One of two calls in flight was completed while its provider's counter
\* and the owner's allowance were already at 0; the other is still in flight
C30_Witness ==
    \E q \in Jobs :
        /\ jobs[q].status = "completed"
        /\ history[q] = <<[call_status |-> "completed", provider_id |-> jobs[q].provider_id,
                           provider_call_id |-> "cid"]>>
        /\ avail[jobs[q].provider_id].current_calls = 0
        /\ usage.calls_remaining = 0
        /\ usage.calls_used = CallLimit + 1
        /\ \A k \in Jobs \ {q} : jobs[k].status = "processing" /\ history[k] = <<>>

\* Jobs in flight on provider p
InFlightOn(p) == {j \in Jobs : jobs[j].status = "processing" /\ jobs[j].provider_id = p}

\* C31: with no health probe writing the snapshot, current_calls of every
\* provider equals the number of jobs in flight on it.
C31_CounterMatchesInFlight ==
    \A p \in Providers : avail[p].current_calls = Cardinality(InFlightOn(p))

\* C32: a dispatch step that finds no eligible provider leaves the pulled
\* job and every table as they were, hands nothing to the failure handling,
\* and ends the tick: no further job is pulled before the next tick.
C32_NoProviderLeavesJobAlone ==
    [][\A d \in Dispatchers :
          (GetProvider(d) /\ ~SomeProviderFree) =>
             /\ UNCHANGED <<jobs, retries, assignments, avail, history, usage>>
             /\ jobs'[disp[d].nextCall].status = "pending"
             /\ disp'[d] = IdleDisp]_vars

\* The queue processor holds a requeued job and is about to ask for a
\* provider while one provider is online but full and the other is not
\* online
C32_Witness ==
    \E d \in Dispatchers : \E p, o \in Providers :
        /\ disp[d].pc = "provider"
        /\ jobs[disp[d].nextCall].status = "pending"
        /\ retries[disp[d].nextCall].retry_count = 1
        /\ avail[p].status = "online"
        /\ avail[p].current_calls >= providers[p].max_concurrent_calls
        /\ avail[o].status = "offline"
        /\ ENABLED GetProvider(d)

\* C33: a job becomes processing only with its scheduled time absent or
\* reached; and processScheduledCalls changes nothing but the scheduled
\* time, which it clears, of jobs that are pending, without provider and
\* past their scheduled time: no status changes.
C33_ScheduledJobsWait ==
    [][/\ \A j \in Jobs :
             (jobs[j].status # "processing" /\ jobs'[j].status = "processing") =>
                (jobs[j].scheduled_time = NoTime \/ jobs[j].scheduled_time <= 0)
       /\ Promote =>
             \A j \in Jobs :
                /\ jobs'[j].status = jobs[j].status
                /\ jobs'[j] # jobs[j] =>
                      /\ jobs[j].status = "pending"
                      /\ jobs[j].provider_id = NULL
                      /\ jobs[j].scheduled_time # NoTime /\ jobs[j].scheduled_time < 0
                      /\ jobs'[j] = [jobs[j] EXCEPT !.scheduled_time = NoTime]]_vars

\* A job enqueued for a later time is in flight after its time had passed
\* and the promotion cleared it
C33_Witness ==
    \E j \in Jobs :
        /\ jobs[j].status = "processing"
        /\ jobs[j].scheduled_time = NoTime
        /\ jobs[j].attempt_count = 1

C35_OtherStatusIsNoOp ==
    [][\A q \in Jobs \cup {NoJob, UnknownJob}, pv \in ProviderFormats, raw \in RawStatuses :
          (/\ ProviderEvent(q, pv, raw)
           /\ extractStandardData(pv, raw) \notin {"completed", "failed", "canceled"}) =>
              /\ UNCHANGED <<jobs, avail, history, assignments, retries, usage>>
              /\ (q \in Jobs /\ jobs[q].status # "absent") => resp' = 200]_vars

\* A status update was answered 200 while the job's call is in flight and
\* nothing has been recorded for it
C35_Witness ==
    /\ resp = 200
    /\ jobs[1].status = "processing"
    /\ 1 \in called
    /\ \A j \in Jobs : history[j] = <<>>
    /\ usage.calls_used = 0
    /\ avail[jobs[1].provider_id].current_calls = 1

C37_AllowanceConserved ==
    /\ [](usage.calls_remaining >= 0)
    /\ [][usage'.calls_used + usage'.calls_remaining
             = usage.calls_used + usage.calls_remaining]_vars

====
